---- MODULE Spec2Model ----
(***************************************************************************)
(* The three-stage pipeline of top_colors.py: read_urls (Reader thread),   *)
(* process_image (W Worker threads), write_results (Writer thread) and     *)
(* runner, which starts and joins them and raises the two completion       *)
(* flags.  The input file is a sequence of characters; a URL is a          *)
(* sequence of characters; an image is the frequency count getcolors       *)
(* returns together with the shape numpy reports.                          *)
(*                                                                         *)
(* Scope: a fetch always returns (an image or None).  Exceptions that      *)
(* load_image does not catch and fetches that never return are not         *)
(* modelled.                                                               *)
(***************************************************************************)
EXTENDS Integers, Sequences, FiniteSets, TLC

VARIABLES
    file,                \* content of the input source, a sequence of characters
    srcExists,           \* whether open(url_path, "r") succeeds
    sinkValid,           \* whether open(result_path, "a") succeeds
    W,                   \* n_process_threads
    cap,                 \* url_q_size
    mpc,                 \* runner: position in the main thread
    started,             \* runner: number of Worker threads started so far
    finished_reading,    \* global flag
    finished_processing, \* global flag
    urls,                \* WorkQueue: sequence of [id, url]
    results,             \* ResultQueue: sequence of [id, row]
    rpc, pos, eof, rurl, \* Reader: position, stream offset, end offset, url in hand
    wpc, wurl,           \* Workers: position and item in hand, per worker
    xpc,                 \* Writer: position
    wbuf,                \* rows written by writerow and still in the file object's buffer
    sink,                \* rows in the sink file
    prior,               \* rows the sink held before the run
    enq,                 \* history: URLs put into the WorkQueue, in order
    dequeued,            \* history: ids taken from the WorkQueue, in order
    fetched,             \* history: per id, how often load_image was called for it
    produced,            \* history: per id, how many records were put for it
    cpc,                 \* a direct call of an extractor function: its position
    arg_im, arg_n,       \* find_top_colors: the arguments im and n
    ret_top,             \* find_top_colors: the list returned
    arg_rgb,             \* rgb_to_hex: the arguments <<r, g, b>>
    ret_hex,             \* rgb_to_hex: the string returned
    cs_urls,             \* ColorScanner.urls
    write_freq,          \* ColorScanner.write_freq
    cs_results,          \* ColorScanner.results: list of rows
    cs_file,             \* rows in the file ColorScanner.fname
    spc,                 \* ColorScanner.scan: position of the main thread
    si,                  \* ColorScanner.scan: the loop index i
    color_count_thread,  \* ColorScanner.scan: the thread the local names, 0 when unbound or None
    tstate,              \* the counting threads, one per URL: "unstarted", "alive", "ended"
    appended             \* history: rows appended to ColorScanner.results, in order

vars == <<file, srcExists, sinkValid, W, cap, mpc, started, finished_reading,
          finished_processing, urls, results, rpc, pos, eof, rurl, wpc, wurl,
          xpc, wbuf, sink, prior, enq, dequeued, fetched, produced,
          cpc, arg_im, arg_n, ret_top, arg_rgb, ret_hex,
          cs_urls, write_freq, cs_results, cs_file, spc, si, color_count_thread,
          tstate, appended>>

----------------------------------------------------------------------------
\* Bounds of the model.

\* Largest number of Worker threads.
MaxW == 2
\* Largest capacity of the WorkQueue.
MaxCap == 2
\* Largest number of lines of an input file of the pipeline specification.
MaxLines == 2
\* Largest sum of the number of Workers and the number of lines of the input
\* file in the work specification.
MaxLoad == 4
\* Largest number of characters of an input file of the reader specification.
MaxFileLen == 4

\* Largest number of characters of a blank-only input file.
MaxBlankLen == 2

\* Largest number of distinct colours of an image handed to find_top_colors.
MaxColors == 3
\* Largest number of pixels of one colour in such an image.
MaxCount == 2
\* Largest n handed to find_top_colors.
MaxN == 4

\* Largest value of a colour channel: the images have 256 ** 3 colours.
ChannelMax == 255

\* Largest number of URLs handed to a ColorScanner.
MaxUrls == 3
\* Largest write_freq of a ColorScanner.
MaxFreq == 2

----------------------------------------------------------------------------
\* Characters and strings (sequences of one-character strings).

NL == "\n"
SP == " "

IsSpace(c) == c \in {SP, NL}

\* The n default of find_top_colors.
DefaultN == 3

----------------------------------------------------------------------------
\* Pure functions of top_colors.py.

Min(S) == CHOOSE x \in S : \A y \in S : x <= y

RECURSIVE LStrip(_)
LStrip(s) == IF s # <<>> /\ IsSpace(Head(s)) THEN LStrip(Tail(s)) ELSE s

RECURSIVE RStrip(_)
RStrip(s) ==
    IF s # <<>> /\ IsSpace(s[Len(s)]) THEN RStrip(SubSeq(s, 1, Len(s) - 1)) ELSE s

\* Mutant of Strip: only a trailing newline is removed.
StripNewlineOnly(s) ==
    IF s # <<>> /\ s[Len(s)] = NL THEN SubSeq(s, 1, Len(s) - 1) ELSE s

\* str.strip(): leading and trailing whitespace removed.
Strip(s) == RStrip(LStrip(s))

\* urlfile.readline() at offset p: the characters up to and including the next
\* newline, or up to the end of the file; empty at the end of the file.
ReadLine(f, p) ==
    LET nls == {i \in (p + 1)..Len(f) : f[i] = NL}
    IN  IF nls = {} THEN SubSeq(f, p + 1, Len(f)) ELSE SubSeq(f, p + 1, Min(nls))

\* find_eof: seek to the end, tell, seek back to the beginning.
find_eof(f) == Len(f)

HexDigits ==
    <<"0", "1", "2", "3", "4", "5", "6", "7", "8", "9", "A", "B", "C", "D", "E", "F">>

\* format(n, "X"): uppercase hexadecimal digits of n >= 0, no padding.
RECURSIVE HexOf(_)
HexOf(n) ==
    IF n < 16 THEN <<HexDigits[n + 1]>>
    ELSE HexOf(n \div 16) \o <<HexDigits[(n % 16) + 1]>>

\* "{:X}" instead: no padding.
HexUnpadded(n) == HexOf(n)

\* "{:02X}": zero-padded on the left to a width of at least two.
Hex02(n) == IF n < 16 THEN <<"0">> \o HexOf(n) ELSE HexOf(n)

rgb_to_hex(r, g, b) == <<"#">> \o Hex02(r) \o Hex02(g) \o Hex02(b)

\* The place entry i of s takes in a stable sort by non-increasing count:
\* behind every entry with a larger count and behind the earlier entries with
\* the same count.
RankDesc(s, i) ==
    Cardinality({j \in 1..Len(s) : s[j][1] > s[i][1]})
    + Cardinality({j \in 1..i : s[j][1] = s[i][1]})

\* sorted(colors, key=lambda x: x[0])[::-1] instead: equally frequent colours
\* come out in the opposite order.
SortedDescReversed(s) ==
    [k \in 1..Len(s) |->
        s[CHOOSE i \in 1..Len(s) :
            Cardinality({j \in 1..Len(s) : s[j][1] > s[i][1]})
            + Cardinality({j \in i..Len(s) : s[j][1] = s[i][1]}) = k]]

\* sorted(colors, reverse=True, key=lambda x: x[0]): a stable sort.
SortedDesc(s) ==
    [k \in 1..Len(s) |-> s[CHOOSE i \in 1..Len(s) : RankDesc(s, i) = k]]

\* rgb_to_hex(x[1][0], x[1][1], x[1][2]) for an entry x = <<count, <<r, g, b>>>>.
EntryHex(x) == rgb_to_hex(x[2][1], x[2][2], x[2][3])

\* find_top_colors(im, n), n >= 0: the first n entries of the sorted list (all
\* of them when there are fewer), each as a hex string.
find_top_colors(im, n) ==
    [k \in 1..(IF n < Len(im.colors) THEN n ELSE Len(im.colors)) |->
        EntryHex(SortedDesc(im.colors)[k])]

\* check_valid_image: np.array(im).shape has three axes and at least 3 channels.
check_valid_image(im) == Len(im.shape) = 3 /\ im.shape[3] >= 3

----------------------------------------------------------------------------
\* The web: what load_image returns for a URL.  An image is
\* [shape, colors]: numpy's shape and the list getcolors returns,
\* <<count, <<r, g, b>>>> per distinct colour.

\* load_image's None.
NoImage == [shape |-> <<>>, colors |-> <<>>]

\* An RGB photo with four distinct colours, three of them equally frequent.
PhotoImage ==
    [shape  |-> <<2, 3, 3>>,
     colors |-> << <<1, <<0, 0, 0>>>>, <<3, <<123, 77, 24>>>>,
                   <<1, <<255, 255, 255>>>>, <<1, <<130, 162, 187>>>> >>]

\* An RGB image with two distinct colours.
TwoColorImage ==
    [shape  |-> <<1, 2, 3>>,
     colors |-> << <<1, <<255, 255, 255>>>>, <<1, <<0, 0, 0>>>> >>]

\* The grayscale stand-in a host returns for a removed image (mode L).
RemovedImage == [shape |-> <<2, 3>>, colors |-> <<>>]

\* load_image(url): the host is the URL's first character.
load_image(url) ==
    CASE Head(url) = "a" -> PhotoImage
      [] Head(url) = "d" -> TwoColorImage
      [] Head(url) = "c" -> RemovedImage
      [] OTHER           -> NoImage

\* process_image's two tests: "if not im" and "if not check_valid_image(im)".
Dropped(url) ==
    LET im == load_image(url) IN im = NoImage \/ ~check_valid_image(im)

\* res = [url] + find_top_colors(im)
Record(url) == <<url>> \o find_top_colors(load_image(url), DefaultN)

----------------------------------------------------------------------------
\* Input sources.

\* Line contents of the pipeline specification's files.
LineSet == {<<"a">>, <<"b">>, <<"c">>, <<"d">>, <<SP>>, <<>>}

RECURSIVE JoinLines(_)
JoinLines(ls) ==
    IF ls = <<>> THEN <<>> ELSE Head(ls) \o <<NL>> \o JoinLines(Tail(ls))

LineFiles == {JoinLines(ls) : ls \in UNION {[1..n -> LineSet] : n \in 0..MaxLines}}

\* Line contents of the work specification's files: a photo, a failing fetch,
\* a removed image.
WorkLineSet == {<<"a">>, <<"b">>, <<"c">>}

\* The files of at most n such lines.
WorkFiles(n) == {JoinLines(ls) : ls \in UNION {[1..k -> WorkLineSet] : k \in 0..n}}

ReaderChars == {"a", "d", SP, NL}

CharFiles == UNION {[1..n -> ReaderChars] : n \in 0..MaxFileLen}

\* The files that hold nothing but whitespace.
BlankFiles == UNION {[1..n -> {SP, NL}] : n \in 0..MaxBlankLen}

\* A row left in the sink by an earlier run.
PriorRow == [id |-> 0, row |-> <<<<"p">>>>]

----------------------------------------------------------------------------
\* The state in which runner has reset the flags and created the queues
\* (top_colors.py lines 282-288) and no thread is started yet.

InitPipeline(files) ==
    /\ srcExists \in BOOLEAN
    /\ sinkValid \in BOOLEAN
    /\ file \in (IF srcExists THEN files ELSE {<<>>})
    /\ W \in 1..MaxW
    /\ cap \in 1..MaxCap
    /\ prior \in {<<>>, <<PriorRow>>}
    /\ mpc = "start_read"
    /\ started = 0
    /\ finished_reading = FALSE
    /\ finished_processing = FALSE
    /\ urls = <<>>
    /\ results = <<>>
    /\ rpc = "idle" /\ pos = 0 /\ eof = 0 /\ rurl = <<>>
    /\ wpc = [w \in 1..W |-> "idle"]
    /\ wurl = [w \in 1..W |-> [id |-> 0, url |-> <<>>]]
    /\ xpc = "idle"
    /\ wbuf = <<>>
    /\ sink = prior
    /\ enq = <<>>
    /\ dequeued = <<>>
    /\ fetched = <<>>
    /\ produced = <<>>

\* No function is called from outside the pipeline.
NoCall ==
    /\ cpc = "idle"
    /\ arg_im = NoImage /\ arg_n = DefaultN /\ ret_top = <<>>
    /\ arg_rgb = <<0, 0, 0>> /\ ret_hex = <<>>

\* No ColorScanner is at work.
NoScan ==
    /\ spc = "idle"
    /\ cs_urls = <<>> /\ write_freq = 1
    /\ cs_results = <<>> /\ cs_file = <<>>
    /\ si = 0 /\ color_count_thread = 0
    /\ tstate = <<>>
    /\ appended = <<>>

InitWith(files) == InitPipeline(files) /\ NoCall /\ NoScan

Init == InitWith(LineFiles)

----------------------------------------------------------------------------
\* runner (the main thread).

runnerVars == <<mpc, started, finished_reading, finished_processing>>
readerVars == <<rpc, pos, eof, rurl, enq>>
workerVars == <<wpc, wurl, dequeued, fetched, produced>>
writerVars == <<xpc, wbuf, sink>>
callVars   == <<cpc, arg_im, arg_n, ret_top, arg_rgb, ret_hex>>
scanVars   == <<cs_urls, write_freq, cs_results, cs_file, spc, si,
                color_count_thread, tstate, appended>>
inputVars  == <<file, srcExists, sinkValid, W, cap, prior, callVars, scanVars>>

\* read_thread.start()
RunnerStartRead ==
    /\ mpc = "start_read"
    /\ rpc' = "open"
    /\ mpc' = "start_write"
    /\ UNCHANGED <<inputVars, started, finished_reading, finished_processing,
                   urls, results, pos, eof, rurl, enq, workerVars, writerVars>>

\* write_thread.start()
RunnerStartWrite ==
    /\ mpc = "start_write"
    /\ xpc' = "open"
    /\ mpc' = "start_workers"
    /\ UNCHANGED <<inputVars, started, finished_reading, finished_processing,
                   urls, results, readerVars, workerVars, wbuf, sink>>

\* The loop left after its first turn.
RunnerStartWorkerOnce ==
    /\ mpc = "start_workers"
    /\ started < W
    /\ started' = started + 1
    /\ wpc' = [wpc EXCEPT ![started + 1] = "test"]
    /\ mpc' = "join_read"
    /\ UNCHANGED <<inputVars, finished_reading, finished_processing, urls, results,
                   readerVars, wurl, dequeued, fetched, produced, writerVars>>

\* One turn of "for _ in range(n_process_threads)": thread.start().
RunnerStartWorker ==
    /\ mpc = "start_workers"
    /\ started < W
    /\ started' = started + 1
    /\ wpc' = [wpc EXCEPT ![started + 1] = "test"]
    /\ mpc' = IF started + 1 = W THEN "join_read" ELSE "start_workers"
    /\ UNCHANGED <<inputVars, finished_reading, finished_processing, urls, results,
                   readerVars, wurl, dequeued, fetched, produced, writerVars>>

\* finished_reading = True without the join before it.
RunnerJoinReadNoWait ==
    /\ mpc = "join_read"
    /\ finished_reading' = TRUE
    /\ mpc' = "join_workers"
    /\ UNCHANGED <<inputVars, started, finished_processing, urls, results,
                   readerVars, workerVars, writerVars>>

\* read_thread.join(); finished_reading = True
RunnerJoinRead ==
    /\ mpc = "join_read"
    /\ rpc \in {"done", "failed"}
    /\ finished_reading' = TRUE
    /\ mpc' = "join_workers"
    /\ UNCHANGED <<inputVars, started, finished_processing, urls, results,
                   readerVars, workerVars, writerVars>>

\* finished_processing = True and finished_reading set back to False.
RunnerJoinWorkersResets ==
    /\ mpc = "join_workers"
    /\ \A w \in 1..W : wpc[w] = "done"
    /\ finished_processing' = TRUE
    /\ finished_reading' = FALSE
    /\ mpc' = "join_write"
    /\ UNCHANGED <<inputVars, started, urls, results,
                   readerVars, workerVars, writerVars>>

\* [thread.join() for thread in process_threads]; finished_processing = True
RunnerJoinWorkers ==
    /\ mpc = "join_workers"
    /\ \A w \in 1..W : wpc[w] = "done"
    /\ finished_processing' = TRUE
    /\ mpc' = "join_write"
    /\ UNCHANGED <<inputVars, started, finished_reading, urls, results,
                   readerVars, workerVars, writerVars>>

\* write_thread.join(); runner returns.
RunnerJoinWrite ==
    /\ mpc = "join_write"
    /\ xpc \in {"done", "failed"}
    /\ mpc' = "returned"
    /\ UNCHANGED <<inputVars, started, finished_reading, finished_processing,
                   urls, results, readerVars, workerVars, writerVars>>

----------------------------------------------------------------------------
\* read_urls (the Reader thread).

\* open(url_path, "r") and find_eof; FileNotFoundError is re-raised as an
\* Exception, which ends the thread.
ReaderOpen ==
    /\ rpc = "open"
    /\ IF srcExists
         THEN /\ eof' = find_eof(file)
              /\ pos' = 0
              /\ rpc' = "read"
         ELSE /\ rpc' = "failed"
              /\ UNCHANGED <<pos, eof>>
    /\ UNCHANGED <<inputVars, runnerVars, urls, results, rurl, enq,
                   workerVars, writerVars>>

\* Mutant of ReaderRead: any blank line ends the reading.
ReaderReadStopsAtBlank ==
    /\ rpc = "read"
    /\ LET line == ReadLine(file, pos)
           url  == Strip(line)
       IN  /\ pos' = pos + Len(line)
           /\ IF url # <<>>
                THEN rurl' = url /\ rpc' = "put"
                ELSE rurl' = rurl /\ rpc' = "done"
    /\ UNCHANGED <<inputVars, runnerVars, urls, results, eof, enq,
                   workerVars, writerVars>>

\* url = urlfile.readline().strip() and the three-way test on it.
ReaderRead ==
    /\ rpc = "read"
    /\ LET line == ReadLine(file, pos)
           url  == Strip(line)
           tell == pos + Len(line)
       IN  /\ pos' = tell
           /\ IF url # <<>>
                THEN rurl' = url /\ rpc' = "put"
                ELSE /\ rurl' = rurl
                     /\ rpc' = IF tell # eof THEN "read" ELSE "done"
    /\ UNCHANGED <<inputVars, runnerVars, urls, results, eof, enq,
                   workerVars, writerVars>>

\* urls.put(url) on a queue that has no maxsize.
ReaderPutUnbounded ==
    /\ rpc = "put"
    /\ urls' = Append(urls, [id |-> Len(enq) + 1, url |-> rurl])
    /\ enq' = Append(enq, rurl)
    /\ fetched' = Append(fetched, 0)
    /\ produced' = Append(produced, 0)
    /\ rpc' = "read"
    /\ UNCHANGED <<inputVars, runnerVars, results, pos, eof, rurl, wpc, wurl,
                   dequeued, writerVars>>

\* urls.put(url): blocks while the WorkQueue is full.
ReaderPut ==
    /\ rpc = "put"
    /\ Len(urls) < cap
    /\ urls' = Append(urls, [id |-> Len(enq) + 1, url |-> rurl])
    /\ enq' = Append(enq, rurl)
    /\ fetched' = Append(fetched, 0)
    /\ produced' = Append(produced, 0)
    /\ rpc' = "read"
    /\ UNCHANGED <<inputVars, runnerVars, results, pos, eof, rurl,
                   wpc, wurl, dequeued, writerVars>>

----------------------------------------------------------------------------
\* process_image (a Worker thread).

\* "if not urls.empty()"
WorkerTest(w) ==
    /\ wpc[w] = "test"
    /\ wpc' = [wpc EXCEPT ![w] = IF urls # <<>> THEN "get" ELSE "flag"]
    /\ UNCHANGED <<inputVars, runnerVars, urls, results, readerVars, wurl,
                   dequeued, fetched, produced, writerVars>>

\* Mutant of WorkerGet: the head of the WorkQueue is read and left in place.
WorkerGetPeek(w) ==
    /\ wpc[w] = "get"
    /\ urls # <<>>
    /\ wurl' = [wurl EXCEPT ![w] = Head(urls)]
    /\ urls' = urls
    /\ dequeued' = Append(dequeued, Head(urls).id)
    /\ wpc' = [wpc EXCEPT ![w] = "proc"]
    /\ UNCHANGED <<inputVars, runnerVars, results, readerVars, fetched, produced,
                   writerVars>>

\* The WorkQueue as a LifoQueue: get() takes the URL put last.
WorkerGetLast(w) ==
    /\ wpc[w] = "get"
    /\ urls # <<>>
    /\ wurl' = [wurl EXCEPT ![w] = urls[Len(urls)]]
    /\ urls' = SubSeq(urls, 1, Len(urls) - 1)
    /\ dequeued' = Append(dequeued, urls[Len(urls)].id)
    /\ wpc' = [wpc EXCEPT ![w] = "proc"]
    /\ UNCHANGED <<inputVars, runnerVars, results, readerVars, fetched, produced,
                   writerVars>>

\* url = urls.get(): blocks while the WorkQueue is empty.
WorkerGet(w) ==
    /\ wpc[w] = "get"
    /\ urls # <<>>
    /\ wurl' = [wurl EXCEPT ![w] = Head(urls)]
    /\ urls' = Tail(urls)
    /\ dequeued' = Append(dequeued, Head(urls).id)
    /\ wpc' = [wpc EXCEPT ![w] = "proc"]
    /\ UNCHANGED <<inputVars, runnerVars, results, readerVars, fetched, produced,
                   writerVars>>

\* Mutant of WorkerProcess: a dropped URL is put as the record [url].
WorkerProcessPartial(w) ==
    /\ wpc[w] = "proc"
    /\ fetched' = [fetched EXCEPT ![wurl[w].id] = @ + 1]
    /\ results' = Append(results,
                         [id  |-> wurl[w].id,
                          row |-> IF Dropped(wurl[w].url) THEN <<wurl[w].url>>
                                  ELSE Record(wurl[w].url)])
    /\ produced' = [produced EXCEPT ![wurl[w].id] = @ + 1]
    /\ wpc' = [wpc EXCEPT ![w] = "test"]
    /\ UNCHANGED <<inputVars, runnerVars, urls, readerVars, wurl, dequeued,
                   writerVars>>

\* load_image, the two tests, find_top_colors and results.put(res); then the
\* sleep and back to the top of the loop.
WorkerProcess(w) ==
    /\ wpc[w] = "proc"
    /\ fetched' = [fetched EXCEPT ![wurl[w].id] = @ + 1]
    /\ IF Dropped(wurl[w].url)
         THEN UNCHANGED <<results, produced>>
         ELSE /\ results' = Append(results,
                                   [id |-> wurl[w].id, row |-> Record(wurl[w].url)])
              /\ produced' = [produced EXCEPT ![wurl[w].id] = @ + 1]
    /\ wpc' = [wpc EXCEPT ![w] = "test"]
    /\ UNCHANGED <<inputVars, runnerVars, urls, readerVars, wurl, dequeued,
                   writerVars>>

\* "elif finished_reading: break", else the sleep and back to the top.
WorkerFlag(w) ==
    /\ wpc[w] = "flag"
    /\ wpc' = [wpc EXCEPT ![w] = IF finished_reading THEN "done" ELSE "test"]
    /\ UNCHANGED <<inputVars, runnerVars, urls, results, readerVars, wurl,
                   dequeued, fetched, produced, writerVars>>

----------------------------------------------------------------------------
\* write_results (the Writer thread).

\* The sink opened in mode "w" instead: the rows of earlier runs are gone.
WriterOpenTruncate ==
    /\ xpc = "open"
    /\ xpc' = IF sinkValid THEN "test" ELSE "failed"
    /\ sink' = IF sinkValid THEN <<>> ELSE sink
    /\ UNCHANGED <<inputVars, runnerVars, urls, results, readerVars, workerVars,
                   wbuf>>

\* open(result_path, "a"): creates the file when absent; FileNotFoundError is
\* re-raised as an Exception, which ends the thread.
WriterOpen ==
    /\ xpc = "open"
    /\ xpc' = IF sinkValid THEN "test" ELSE "failed"
    /\ UNCHANGED <<inputVars, runnerVars, urls, results, readerVars, workerVars,
                   wbuf, sink>>

\* "if not results.empty()"
WriterTest ==
    /\ xpc = "test"
    /\ xpc' = IF results # <<>> THEN "get" ELSE "flag"
    /\ UNCHANGED <<inputVars, runnerVars, urls, results, readerVars, workerVars,
                   wbuf, sink>>

\* The head of the ResultQueue written but left in the queue.
WriterGetPeek ==
    /\ xpc = "get"
    /\ results # <<>>
    /\ \E fills \in BOOLEAN :
          IF fills
            THEN sink' = sink \o wbuf \o <<Head(results)>> /\ wbuf' = <<>>
            ELSE wbuf' = Append(wbuf, Head(results)) /\ sink' = sink
    /\ xpc' = "test"
    /\ UNCHANGED <<inputVars, runnerVars, urls, results, readerVars, workerVars>>

\* result = results.get() (blocks while the ResultQueue is empty) and
\* writer.writerow(result): the row goes to the file object's buffer, which
\* is written out whenever it fills.
WriterGet ==
    /\ xpc = "get"
    /\ results # <<>>
    /\ results' = Tail(results)
    /\ \E fills \in BOOLEAN :
          IF fills
            THEN sink' = sink \o wbuf \o <<Head(results)>> /\ wbuf' = <<>>
            ELSE wbuf' = Append(wbuf, Head(results)) /\ sink' = sink
    /\ xpc' = "test"
    /\ UNCHANGED <<inputVars, runnerVars, urls, readerVars, workerVars>>

\* "elif finished_processing: break" and the end of the with block, which
\* closes the file; else the sleep and back to the top.
WriterFlag ==
    /\ xpc = "flag"
    /\ IF finished_processing
         THEN /\ sink' = sink \o wbuf
              /\ wbuf' = <<>>
              /\ xpc' = "done"
         ELSE /\ xpc' = "test"
              /\ UNCHANGED <<wbuf, sink>>
    /\ UNCHANGED <<inputVars, runnerVars, urls, results, readerVars, workerVars>>

----------------------------------------------------------------------------

Runner ==
    \/ RunnerStartRead
    \/ RunnerStartWrite
    \/ RunnerStartWorker
    \/ RunnerJoinRead
    \/ RunnerJoinWorkers
    \/ RunnerJoinWrite

Reader == ReaderOpen \/ ReaderRead \/ ReaderPut

Worker(w) ==
    /\ w \in 1..W
    /\ (WorkerTest(w) \/ WorkerGet(w) \/ WorkerProcess(w) \/ WorkerFlag(w))

Writer == WriterOpen \/ WriterTest \/ WriterGet \/ WriterFlag

Next ==
    \/ RunnerStartRead
    \/ RunnerStartWrite
    \/ RunnerStartWorker
    \/ RunnerJoinRead
    \/ RunnerJoinWorkers
    \/ RunnerJoinWrite
    \/ ReaderOpen
    \/ ReaderRead
    \/ ReaderPut
    \/ \E w \in 1..W : WorkerTest(w)
    \/ \E w \in 1..W : WorkerGet(w)
    \/ \E w \in 1..W : WorkerProcess(w)
    \/ \E w \in 1..W : WorkerFlag(w)
    \/ WriterOpen
    \/ WriterTest
    \/ WriterGet
    \/ WriterFlag

\* Every run of the pipeline, over the line files.
Spec == Init /\ [][Next]_vars

\* The threads are operating-system threads: a thread that can take a step
\* eventually takes one.
Fairness ==
    /\ WF_vars(Runner)
    /\ WF_vars(Reader)
    /\ WF_vars(Writer)
    /\ \A w \in 1..MaxW : WF_vars(Worker(w))

\* The pipeline over the blank-only files and one file with a URL in it.
InitFair ==
    /\ InitWith(BlankFiles \cup {<<"a", NL>>})
    /\ prior = <<>>

\* Its runs in which every thread is scheduled fairly.
FairSpec == InitFair /\ [][Next]_vars /\ Fairness

\* The pipeline with an empty sink, over the work files: the more Workers, the
\* fewer lines.
InitWork ==
    /\ \E w \in 1..MaxW : InitWith(WorkFiles(MaxLoad - w)) /\ W = w
    /\ prior = <<>>

SpecWork == InitWork /\ [][Next]_vars

\* The pipeline with one Worker and valid paths, over the character files.
InitReader ==
    /\ InitWith(CharFiles)
    /\ srcExists /\ sinkValid
    /\ W = 1
    /\ prior = <<>>

SpecReader == InitReader /\ [][Next]_vars

\* The pipeline with valid paths and a sink that an earlier run has written
\* to, over the work files.
InitAppend ==
    /\ \E w \in 1..MaxW : InitWith(WorkFiles(MaxLoad - w)) /\ W = w
    /\ srcExists /\ sinkValid
    /\ prior = <<PriorRow>>

SpecAppend == InitAppend /\ [][Next]_vars

----------------------------------------------------------------------------
\* The extractor functions called directly, as the tests call them.

\* The pipeline as runner finds it, with nothing to run on.
PipelineIdle ==
    /\ InitPipeline({<<>>})
    /\ ~srcExists /\ ~sinkValid
    /\ W = 1 /\ cap = 1
    /\ prior = <<>>

pipelineVars ==
    <<file, srcExists, sinkValid, W, cap, prior, runnerVars, urls, results,
      readerVars, workerVars, writerVars, scanVars>>

\* The colours the images are painted with.
Palette == {<<0, 0, 0>>, <<255, 255, 255>>, <<123, 77, 24>>, <<130, 162, 187>>}

\* What getcolors returns for the images of up to MaxColors distinct colours
\* and up to MaxCount pixels per colour: one <<count, colour>> entry per
\* distinct colour, no colour twice.
ColorCounts ==
    UNION {{c \in [1..len -> (1..MaxCount) \X Palette] :
               \A i, j \in 1..len : c[i][2] = c[j][2] => i = j} : len \in 1..MaxColors}

\* The RGB images with these frequency counts.
Images == {[shape |-> <<1, Len(c), 3>>, colors |-> c] : c \in ColorCounts}

InitExtract ==
    /\ PipelineIdle
    /\ cpc = "call_find_top_colors"
    /\ arg_im \in Images
    /\ arg_n \in 0..MaxN
    /\ ret_top = <<>>
    /\ arg_rgb = <<0, 0, 0>> /\ ret_hex = <<>>
    /\ NoScan

\* find_top_colors(im, n)
CallFindTopColors ==
    /\ cpc = "call_find_top_colors"
    /\ ret_top' = find_top_colors(arg_im, arg_n)
    /\ cpc' = "find_top_colors_returned"
    /\ UNCHANGED <<pipelineVars, arg_im, arg_n, arg_rgb, ret_hex>>

SpecExtract == InitExtract /\ [][CallFindTopColors]_vars

\* Channel values at the ends of the range and those of the colour (123, 77, 24).
ChannelSamples == {0, 24, 77, 123, ChannelMax}

\* The colours in which one channel takes every value and the other two take
\* the sample values.
Colors ==
    UNION {{<<x, c[1], c[2]>>, <<c[1], x, c[2]>>, <<c[1], c[2], x>>} :
              x \in 0..ChannelMax, c \in ChannelSamples \X ChannelSamples}

InitHex ==
    /\ PipelineIdle
    /\ cpc = "call_rgb_to_hex"
    /\ arg_rgb \in Colors
    /\ ret_hex = <<>>
    /\ arg_im = NoImage /\ arg_n = DefaultN /\ ret_top = <<>>
    /\ NoScan

\* rgb_to_hex(r, g, b)
CallRgbToHex ==
    /\ cpc = "call_rgb_to_hex"
    /\ ret_hex' = rgb_to_hex(arg_rgb[1], arg_rgb[2], arg_rgb[3])
    /\ cpc' = "rgb_to_hex_returned"
    /\ UNCHANGED <<pipelineVars, arg_im, arg_n, ret_top, arg_rgb>>

SpecHex == InitHex /\ [][CallRgbToHex]_vars

----------------------------------------------------------------------------
\* color_scanner.py: ColorScanner.scan, the earlier design.  The main thread
\* loads the images one after the other and starts one counting thread
\* (get_top_colors) per image; it writes self.results to the file itself.

otherVars ==
    <<file, srcExists, sinkValid, W, cap, prior, callVars, runnerVars, urls,
      results, readerVars, workerVars, writerVars>>

\* color_scanner.load_image catches nothing: requests.get or Image.open
\* raises where top_colors.load_image returns None.
LoadRaises(url) == load_image(url) = NoImage

\* color_scanner.find_top_colors(img): None (here the empty list, which
\* get_top_colors treats alike) when the counts are of integers, as they are
\* for an image without a channel axis; else the top 3 colours.
cs_find_top_colors(img) ==
    IF Len(img.shape) # 3 THEN <<>> ELSE find_top_colors(img, DefaultN)

\* The row get_top_colors appends: [url] + top_colors, or [url].
cs_row(url) == <<url>> \o cs_find_top_colors(load_image(url))

\* The URL lists: a photo, a removed image, a host that cannot be reached.
ScanUrls == {<<"a">>, <<"c">>, <<"b">>}
UrlLists == UNION {[1..len -> ScanUrls] : len \in 0..MaxUrls}

\* ColorScanner(urls, fname, write_freq=...) constructed, scan() called, the
\* output file new.
InitScan ==
    /\ PipelineIdle
    /\ NoCall
    /\ cs_urls \in UrlLists
    /\ write_freq \in 1..MaxFreq
    /\ cs_results = <<>>
    /\ cs_file = <<>>
    /\ spc = "for"
    /\ si = 0
    /\ color_count_thread = 0
    /\ tstate = [k \in 1..Len(cs_urls) |-> "unstarted"]
    /\ appended = <<>>

\* "for i, url in enumerate(self.urls)" with a URL left, img = load_image(url)
\* and "if i == 0: color_count_thread = None".
ScanLoad ==
    /\ spc = "for"
    /\ si < Len(cs_urls)
    /\ spc' = IF LoadRaises(cs_urls[si + 1]) THEN "raised"
              ELSE IF si = 0 THEN "start" ELSE "join"
    /\ UNCHANGED <<otherVars, cs_urls, write_freq, cs_results, cs_file, si,
                   color_count_thread, tstate, appended>>

\* The for loop with no URL left.
ScanLoopEnd ==
    /\ spc = "for"
    /\ si = Len(cs_urls)
    /\ spc' = "final_join"
    /\ UNCHANGED <<otherVars, cs_urls, write_freq, cs_results, cs_file, si,
                   color_count_thread, tstate, appended>>

\* The loop going on without the join.
ScanJoinNoWait ==
    /\ spc = "join"
    /\ spc' = "check"
    /\ UNCHANGED <<otherVars, cs_urls, write_freq, cs_results, cs_file, si,
                   color_count_thread, tstate, appended>>

\* color_count_thread.join() in the loop.
ScanJoin ==
    /\ spc = "join"
    /\ tstate[color_count_thread] = "ended"
    /\ spc' = "check"
    /\ UNCHANGED <<otherVars, cs_urls, write_freq, cs_results, cs_file, si,
                   color_count_thread, tstate, appended>>

\* "if len(self.results) >= self.write_freq"
ScanCheck ==
    /\ spc = "check"
    /\ spc' = IF Len(cs_results) >= write_freq THEN "write" ELSE "start"
    /\ UNCHANGED <<otherVars, cs_urls, write_freq, cs_results, cs_file, si,
                   color_count_thread, tstate, appended>>

\* write_results: open(self.fname, 'a'), writer.writerows(self.results) and
\* the end of the with block, which closes the file.
ScanWrite ==
    /\ spc \in {"write", "final_write"}
    /\ cs_file' = cs_file \o cs_results
    /\ spc' = IF spc = "write" THEN "clear" ELSE "final_clear"
    /\ UNCHANGED <<otherVars, cs_urls, write_freq, cs_results, si,
                   color_count_thread, tstate, appended>>

\* write_results: self.results = []; scan returns after the last one.
ScanClear ==
    /\ spc \in {"clear", "final_clear"}
    /\ cs_results' = <<>>
    /\ spc' = IF spc = "clear" THEN "start" ELSE "returned"
    /\ UNCHANGED <<otherVars, cs_urls, write_freq, cs_file, si,
                   color_count_thread, tstate, appended>>

\* color_count_thread = threading.Thread(...); color_count_thread.start()
ScanStart ==
    /\ spc = "start"
    /\ tstate' = [tstate EXCEPT ![si + 1] = "alive"]
    /\ color_count_thread' = si + 1
    /\ si' = si + 1
    /\ spc' = "for"
    /\ UNCHANGED <<otherVars, cs_urls, write_freq, cs_results, cs_file, appended>>

\* color_count_thread.join() behind the loop: the local is unbound when the
\* loop body never ran (UnboundLocalError).
ScanFinalJoin ==
    /\ spc = "final_join"
    /\ IF color_count_thread = 0
         THEN spc' = "raised"
         ELSE tstate[color_count_thread] = "ended" /\ spc' = "final_check"
    /\ UNCHANGED <<otherVars, cs_urls, write_freq, cs_results, cs_file, si,
                   color_count_thread, tstate, appended>>

\* "if len(self.results) > 0"
ScanFinalCheck ==
    /\ spc = "final_check"
    /\ spc' = IF Len(cs_results) > 0 THEN "final_write" ELSE "returned"
    /\ UNCHANGED <<otherVars, cs_urls, write_freq, cs_results, cs_file, si,
                   color_count_thread, tstate, appended>>

\* get_top_colors(url, img) in counting thread k.
CountThread(k) ==
    /\ tstate[k] = "alive"
    /\ cs_results' = Append(cs_results, cs_row(cs_urls[k]))
    /\ appended' = Append(appended, cs_row(cs_urls[k]))
    /\ tstate' = [tstate EXCEPT ![k] = "ended"]
    /\ UNCHANGED <<otherVars, cs_urls, write_freq, cs_file, spc, si,
                   color_count_thread>>

ScanNext ==
    \/ ScanLoad
    \/ ScanLoopEnd
    \/ ScanJoin
    \/ ScanCheck
    \/ ScanWrite
    \/ ScanClear
    \/ ScanStart
    \/ ScanFinalJoin
    \/ ScanFinalCheck
    \/ \E k \in 1..Len(cs_urls) : CountThread(k)

SpecScan == InitScan /\ [][ScanNext]_vars

----------------------------------------------------------------------------
\* What the properties are stated with.

Max(S) == CHOOSE x \in S : \A y \in S : x >= y

Range(s) == {s[i] : i \in 1..Len(s)}

Whitespace == {" ", "\n"}

\* s without its leading and trailing whitespace.
Trimmed(s) ==
    LET ink == {i \in 1..Len(s) : s[i] \notin Whitespace}
    IN  IF ink = {} THEN <<>> ELSE SubSeq(s, Min(ink), Max(ink))

\* The lines of f: the pieces between its newline characters.
RECURSIVE LinesOf(_)
LinesOf(f) ==
    LET nls == {i \in 1..Len(f) : f[i] = "\n"}
    IN  IF nls = {} THEN (IF f = <<>> THEN <<>> ELSE <<f>>)
        ELSE <<SubSeq(f, 1, Min(nls) - 1)>> \o LinesOf(SubSeq(f, Min(nls) + 1, Len(f)))

RECURSIVE NonBlank(_)
NonBlank(ls) ==
    IF ls = <<>> THEN <<>>
    ELSE IF Trimmed(Head(ls)) = <<>> THEN NonBlank(Tail(ls))
    ELSE <<Trimmed(Head(ls))>> \o NonBlank(Tail(ls))

\* The non-blank trimmed lines of f, in file order.
UrlsOf(f) == NonBlank(LinesOf(f))

\* A URL behind which there is a genuine photo: an image with at least 3 channels.
IsValidImageUrl(u) ==
    load_image(u) # NoImage /\ Len(load_image(u).shape) = 3 /\ load_image(u).shape[3] >= 3

\* The rows this run has appended to the sink file.
NewRows == SubSeq(sink, Len(prior) + 1, Len(sink))

\* Every record of the run that exists somewhere downstream of the Workers.
Downstream == results \o wbuf \o NewRows

Returned == mpc = "returned"

\* Reader, Workers and Writer have all ended.
AllExited ==
    /\ rpc \in {"done", "failed"}
    /\ \A w \in 1..W : wpc[w] = "done"
    /\ xpc \in {"done", "failed"}

\* runner returned and no thread died of an exception.
NormalEnd == Returned /\ rpc = "done" /\ xpc = "done"

----------------------------------------------------------------------------
\* C1 (no loss): when the pipeline has terminated normally, every URL the
\* Reader put into the WorkQueue has been taken out by a Worker and none is
\* left in the WorkQueue.
C1_NoLoss ==
    NormalEnd => (urls = <<>> /\ Range(dequeued) = 1..Len(enq))

\* C2 (no duplication, no retry): every enqueued URL occurrence is dequeued at
\* most once, load_image is called for it at most once and only after it was
\* dequeued, and at most one record exists for it.
C2_NoDuplication ==
    /\ \A i, j \in 1..Len(dequeued) : dequeued[i] = dequeued[j] => i = j
    /\ Range(dequeued) \subseteq 1..Len(enq)
    /\ \A id \in 1..Len(enq) : fetched[id] <= 1 /\ (fetched[id] = 1 => id \in Range(dequeued))
    /\ \A id \in 1..Len(enq) : produced[id] <= fetched[id]
    /\ \A i, j \in 1..Len(Downstream) : Downstream[i].id = Downstream[j].id => i = j

\* Two Workers have each dequeued and fetched one of two occurrences of the
\* same URL.
C2_Witness ==
    /\ W >= 2
    /\ Len(enq) = 2 /\ enq[1] = enq[2]
    /\ wurl[1].id # 0 /\ wurl[2].id # 0
    /\ fetched = <<1, 1>>
    /\ produced = <<1, 1>>

\* C3 (end-to-end completeness): once a run with valid paths has completed,
\* the sink holds exactly K new rows, K the number of valid-image URLs of the
\* input, each with 1 + N fields.
C3_Completeness ==
    (Returned /\ srcExists /\ sinkValid) =>
        /\ Len(NewRows) =
               Cardinality({i \in 1..Len(UrlsOf(file)) : IsValidImageUrl(UrlsOf(file)[i])})
        /\ \A i \in 1..Len(NewRows) : Len(NewRows[i].row) = 1 + DefaultN

\* C4 (termination): under fair scheduling the pipeline eventually terminates:
\* Reader, Workers and Writer end and runner returns.
C4_Termination == <>(Returned /\ AllExited)

\* C5 (blank-only boundary): for an input of blank lines only, nothing is ever
\* enqueued, no row is ever written, and under fair scheduling Reader,
\* Workers and Writer all end and runner returns.
C5_BlankOnly ==
    (\A i \in 1..Len(file) : file[i] \in Whitespace) =>
        /\ [](enq = <<>> /\ urls = <<>> /\ results = <<>> /\ wbuf = <<>> /\ NewRows = <<>>)
        /\ <>(AllExited /\ Returned)

\* A run over a blank input that holds a space and a newline, with two
\* Workers, has ended.
C5_Witness ==
    /\ srcExists /\ sinkValid
    /\ SP \in Range(file) /\ NL \in Range(file)
    /\ \A i \in 1..Len(file) : file[i] \in Whitespace
    /\ W >= 2
    /\ AllExited /\ Returned

\* C6 (worker-count independence): the set of rows of a completed run is the
\* one the input and the per-URL fetch outcomes determine, whatever the number
\* of Workers, so two completed runs on the same input have the same row set.
C6_WorkerCountIndependence ==
    (Returned /\ srcExists /\ sinkValid) =>
        {NewRows[i].row : i \in 1..Len(NewRows)}
            = {Record(u) : u \in {v \in Range(UrlsOf(file)) : IsValidImageUrl(v)}}

\* C7 (fatal input error): when the input source cannot be opened, runner does
\* not complete normally.
C7_FatalInput == ~srcExists => ~Returned

\* C8 (fatal sink error): once the Writer has failed on an invalid sink path,
\* no Worker dequeues, fetches or produces any more and runner does not
\* complete normally.
C8_FatalSink ==
    [][xpc = "failed" =>
          /\ dequeued' = dequeued
          /\ \A id \in 1..Len(fetched) : fetched'[id] = fetched[id]
          /\ results' = results
          /\ mpc' # "returned"]_vars

\* C9 (per-URL failures are non-fatal): the step of a Worker in which
\* load_image returns no image, or the image fails the validity check, puts no
\* record, leaves the Worker alive at the top of its loop and changes nothing
\* of the Reader, the Writer, runner, the WorkQueue or the other Workers; and no
\* record of such a URL exists anywhere.
C9_DropNonFatal ==
    [][\A w \in 1..W :
          (/\ wpc[w] = "proc" /\ wpc'[w] # "proc"
           /\ (load_image(wurl[w].url) = NoImage
               \/ ~check_valid_image(load_image(wurl[w].url))))
          => /\ wpc'[w] = "test"
             /\ results' = results /\ produced' = produced
             /\ urls' = urls
             /\ rpc' = rpc /\ xpc' = xpc /\ mpc' = mpc
             /\ \A v \in 1..W : v # w => wpc'[v] = wpc[v]
             /\ \A i \in 1..Len(Downstream') : IsValidImageUrl(enq[Downstream'[i].id])]_vars

\* The only Worker has fetched a URL that was dropped and holds the next URL.
C9_Witness ==
    /\ W = 1
    /\ wpc[1] = "proc"
    /\ \E id \in 1..Len(enq) :
          fetched[id] = 1 /\ ~IsValidImageUrl(enq[id]) /\ id < wurl[1].id

\* C10 (Reader contract): the URLs the Reader enqueues are, in order, the
\* non-blank trimmed lines of the source; it has enqueued all of them when it
\* stops, and it stops only at the end of the stream.
C10_ReaderContract ==
    /\ Len(enq) <= Len(UrlsOf(file))
    /\ enq = SubSeq(UrlsOf(file), 1, Len(enq))
    /\ rpc = "done" => (enq = UrlsOf(file) /\ pos = Len(file))

\* The Reader has stopped after a file with a blank line between two URLs.
C10_Witness ==
    /\ rpc = "done"
    /\ Len(enq) = 2
    /\ \E i \in 1..(Len(file) - 2) :
          /\ file[i] = NL /\ file[i + 1] = NL
          /\ \E j \in 1..(i - 1) : file[j] \notin Whitespace
          /\ \E j \in (i + 2)..Len(file) : file[j] \notin Whitespace


----------------------------------------------------------------------------
\* C11 (append only): no step of a run removes, rewrites or reorders a row
\* that is already in the sink: the sink after the step is the sink before it
\* followed by the rows the Writer has written out in that step, which are the
\* buffered rows in the order they were dequeued.  So the sink always starts
\* with the content the earlier runs left, duplicates included.
C11_AppendOnly ==
    [][LET added == SubSeq(sink', Len(sink) + 1, Len(sink'))
       IN  /\ Len(sink') >= Len(sink)
           /\ SubSeq(sink', 1, Len(sink)) = sink
           /\ SubSeq(sink', 1, Len(prior)) = prior
           /\ \/ added = <<>>
              \/ added = wbuf
              \/ results # <<>> /\ added = wbuf \o <<Head(results)>>
      ]_vars

\* The run has ended with two rows appended after the row of the earlier run.
C11_Witness ==
    /\ Returned
    /\ xpc = "done"
    /\ prior = <<PriorRow>>
    /\ Len(sink) = 3
    /\ sink[1] = PriorRow

----------------------------------------------------------------------------
\* C12 (extractor result): find_top_colors(im, n) with n >= 0 returns exactly
\* min(n, number of distinct colours of im) entries; they are the hex strings
\* of entries of the frequency count taken in an order of non-increasing
\* pixel frequency in which equally frequent colours keep the order they have
\* in the frequency count, and no entry left out comes before a chosen one in
\* that order.
C12_ExtractorResult ==
    cpc = "find_top_colors_returned" =>
        LET c == arg_im.colors
            m == Len(ret_top)
            Before(i, j) == c[i][1] > c[j][1] \/ (c[i][1] = c[j][1] /\ i < j)
        IN  /\ m = Min({arg_n, Len(c)})
            /\ \E f \in [1..m -> 1..Len(c)] :
                  /\ \A k \in 1..m : ret_top[k] = rgb_to_hex(c[f[k]][2][1], c[f[k]][2][2], c[f[k]][2][3])
                  /\ \A k, l \in 1..m : k < l => Before(f[k], f[l])
                  /\ \A j \in 1..Len(c) : \A k \in 1..m :
                        j \notin {f[l] : l \in 1..m} => Before(f[k], j)

\* find_top_colors has returned two of the three colours of an image whose
\* most frequent colour is the last of the frequency count and whose other two
\* colours are equally frequent.
C12_Witness ==
    /\ cpc = "find_top_colors_returned"
    /\ arg_n = 2
    /\ Len(arg_im.colors) = 3
    /\ arg_im.colors[1][1] = 1 /\ arg_im.colors[2][1] = 1 /\ arg_im.colors[3][1] = 2
    /\ Len(ret_top) = 2

----------------------------------------------------------------------------
\* The value of an uppercase hexadecimal digit.
HexDigitValue ==
    ("0" :> 0) @@ ("1" :> 1) @@ ("2" :> 2) @@ ("3" :> 3) @@ ("4" :> 4) @@ ("5" :> 5)
    @@ ("6" :> 6) @@ ("7" :> 7) @@ ("8" :> 8) @@ ("9" :> 9) @@ ("A" :> 10)
    @@ ("B" :> 11) @@ ("C" :> 12) @@ ("D" :> 13) @@ ("E" :> 14) @@ ("F" :> 15)

\* The number two digits d1 d2 denote.
PairValue(d1, d2) == 16 * HexDigitValue[d1] + HexDigitValue[d2]

\* C13 (rgb_to_hex): for r, g, b in 0..255 the result is "#" followed by
\* exactly six uppercase hexadecimal digits, of which the first two denote r,
\* the next two g and the last two b, so that the six digits denote
\* 65536*r + 256*g + b; (0,0,0) gives #000000, (255,255,255) gives #FFFFFF
\* and (123,77,24) gives #7B4D18.
C13_RgbToHex ==
    cpc = "rgb_to_hex_returned" =>
        LET h == ret_hex
            r == arg_rgb[1]
            g == arg_rgb[2]
            b == arg_rgb[3]
        IN  /\ Len(h) = 7
            /\ h[1] = "#"
            /\ \A i \in 2..7 : h[i] \in DOMAIN HexDigitValue
            /\ PairValue(h[2], h[3]) = r
            /\ PairValue(h[4], h[5]) = g
            /\ PairValue(h[6], h[7]) = b
            /\ 65536 * PairValue(h[2], h[3]) + 256 * PairValue(h[4], h[5]) + PairValue(h[6], h[7])
                  = 65536 * r + 256 * g + b
            /\ (arg_rgb = <<0, 0, 0>> => h = <<"#", "0", "0", "0", "0", "0", "0">>)
            /\ (arg_rgb = <<255, 255, 255>> => h = <<"#", "F", "F", "F", "F", "F", "F">>)
            /\ (arg_rgb = <<123, 77, 24>> => h = <<"#", "7", "B", "4", "D", "1", "8">>)

\* rgb_to_hex has returned for a colour with a channel below 16, which needs
\* the padding, and a channel above 159, whose first digit is a letter.
C13_Witness ==
    /\ cpc = "rgb_to_hex_returned"
    /\ arg_rgb = <<123, 10, 255>>
    /\ ret_hex = <<"#", "7", "B", "0", "A", "F", "F">>

----------------------------------------------------------------------------
\* C14 (completion flags follow the joins): finished_reading is true only
\* when the Reader has ended, and from then on no URL is put into the
\* WorkQueue; finished_processing is true only when finished_reading is true
\* and every one of the W Workers has ended, and from then on no record is
\* put into the ResultQueue.
C14_FlagsFollowJoins ==
    [][/\ finished_reading' => rpc' \in {"done", "failed"}
       /\ finished_reading => enq' = enq /\ Len(urls') <= Len(urls)
       /\ finished_processing' =>
             finished_reading' /\ started' = W /\ \A w \in 1..W : wpc'[w] = "done"
       /\ finished_processing => produced' = produced /\ Len(results') <= Len(results)
      ]_vars

\* Both flags are set after a run in which a URL was enqueued and a record
\* was put for it, and the Writer is still at work.
C14_Witness ==
    /\ finished_reading /\ finished_processing
    /\ enq # <<>>
    /\ \E id \in 1..Len(produced) : produced[id] = 1
    /\ xpc \in {"test", "get", "flag"}
    /\ results # <<>>

----------------------------------------------------------------------------
\* C15 (Writer drains before exit): when the Writer has ended normally,
\* finished_processing is set and the ResultQueue is empty: every record put
\* into it was dequeued and written.
C15_WriterDrains ==
    xpc = "done" =>
        /\ finished_processing
        /\ results = <<>>
        /\ \A id \in 1..Len(produced) :
              produced[id] = Cardinality({i \in 1..Len(NewRows) : NewRows[i].id = id})

----------------------------------------------------------------------------
\* C16 (consumers poll, never block): no Worker is ever inside urls.get()
\* while the WorkQueue is empty, and the Writer is never inside results.get()
\* while the ResultQueue is empty.
C16_NeverBlocked ==
    /\ \A w \in 1..W : ~(wpc[w] = "get" /\ urls = <<>>)
    /\ ~(xpc = "get" /\ results = <<>>)

----------------------------------------------------------------------------
\* C17 (output soundness): in every reachable state every row the run has
\* written (to the sink or to the file object's buffer) is the URL followed by
\* its top colours, for a URL the Reader enqueued, that was fetched, whose
\* fetch returned an image and whose image passed check_valid_image; no row
\* is there for a dropped URL and no record is written twice.
C17_OutputSoundness ==
    LET written == NewRows \o wbuf
    IN  /\ \A i \in 1..Len(written) :
              LET id == written[i].id
              IN  /\ id \in 1..Len(enq)
                  /\ fetched[id] = 1
                  /\ load_image(enq[id]) # NoImage
                  /\ check_valid_image(load_image(enq[id]))
                  /\ written[i].row = <<enq[id]>> \o find_top_colors(load_image(enq[id]), DefaultN)
        /\ \A id \in 1..Len(enq) :
              Dropped(enq[id]) => \A i \in 1..Len(written) : written[i].id # id
        /\ \A i, j \in 1..Len(written) : written[i].id = written[j].id => i = j

\* The Writer has ended after a run that fetched a URL it dropped and wrote
\* the rows of two other URLs to the sink.
C17_Witness ==
    /\ xpc = "done"
    /\ Len(NewRows) = 2
    /\ \E id \in 1..Len(enq) : fetched[id] = 1 /\ Dropped(enq[id])

----------------------------------------------------------------------------
\* The URLs the Reader has taken from the file and no Worker has dequeued:
\* those it has enqueued and the one it holds for its enqueue.
ReadAhead == Len(enq) + (IF rpc = "put" THEN 1 ELSE 0) - Len(dequeued)

\* C18 as stated (backpressure bound): the WorkQueue holds at most cap URLs,
\* and whenever it holds cap URLs the Reader, unless it has ended, is in its
\* enqueue, so that it has taken at most cap URLs from the file that no
\* Worker has dequeued.
C18_Backpressure ==
    /\ Len(urls) <= cap
    /\ (Len(urls) = cap /\ rpc \notin {"done", "failed"}) => rpc = "put"
    /\ ReadAhead <= cap

\* C18 as the code has it: the WorkQueue holds at most cap URLs and the
\* Reader has enqueued at most cap URLs that no Worker has dequeued; the
\* Reader in its enqueue on a full WorkQueue stays there, reads no further
\* line and enqueues nothing until a Worker dequeues; it may have read one
\* line beyond the full WorkQueue, so it has taken at most cap + 1 URLs from
\* the file that no Worker has dequeued.
C18_BackpressureAmended ==
    [][/\ Len(urls') <= cap
       /\ Len(enq') - Len(dequeued') <= cap
       /\ ReadAhead' <= cap + 1
       /\ (rpc = "put" /\ Len(urls) = cap /\ dequeued' = dequeued) =>
             (rpc' = "put" /\ pos' = pos /\ enq' = enq /\ urls' = urls)
      ]_vars

\* The WorkQueue of capacity 2 is full, no Worker has dequeued anything and
\* the Reader is in its enqueue with a third URL.
C18_Witness ==
    /\ cap = 2
    /\ Len(urls) = 2
    /\ dequeued = <<>>
    /\ rpc = "put"
    /\ ReadAhead = 3

----------------------------------------------------------------------------
\* C19 (start order): whenever a Worker thread has been started, the Reader
\* thread and the Writer thread have been started; and whenever runner waits
\* for the Reader to end, or is past that, all W Worker threads have been
\* started.
C19_StartOrder ==
    LET startedWorkers == {w \in 1..W : wpc[w] # "idle"}
    IN  /\ startedWorkers = 1..started
        /\ startedWorkers # {} => (rpc # "idle" /\ xpc # "idle")
        /\ mpc \in {"join_read", "join_workers", "join_write", "returned"} =>
              startedWorkers = 1..W

\* runner waits for the Reader, which has not taken a step yet, with two
\* Workers started.
C19_Witness ==
    /\ mpc = "join_read"
    /\ W = 2
    /\ started = 2
    /\ rpc = "open"
    /\ xpc = "open"

----------------------------------------------------------------------------
\* C20 (monotone flags): in every step of a run a flag that is true stays
\* true; a flag changes only in the one step of runner that assigns it
\* (finished_reading behind the join of the Reader, finished_processing
\* behind the join of the Workers), no step of the Reader, a Worker or the
\* Writer changes it; runner does not come back to an assignment, so each flag
\* is written once, and both are written when runner returns.
C20_MonotoneFlags ==
    [][/\ finished_reading => finished_reading'
       /\ finished_processing => finished_processing'
       /\ finished_reading' # finished_reading =>
             (mpc = "join_read" /\ mpc' = "join_workers")
       /\ finished_processing' # finished_processing =>
             (mpc = "join_workers" /\ mpc' = "join_write")
       /\ finished_reading' <=> mpc' \in {"join_workers", "join_write", "returned"}
       /\ finished_processing' <=> mpc' \in {"join_write", "returned"}
       /\ mpc' = "join_read" => mpc \in {"start_workers", "join_read"}
       /\ mpc' = "join_workers" => mpc \in {"join_read", "join_workers"}
      ]_vars

\* runner has returned with both flags set, after a run that enqueued a URL
\* and wrote a row.
C20_Witness ==
    /\ Returned
    /\ finished_reading /\ finished_processing
    /\ enq # <<>>
    /\ Len(NewRows) >= 1

----------------------------------------------------------------------------
\* C21 (durable per-row write): every record the Writer has dequeued is in
\* the sink file, none is held only in the file object's buffer; so whenever
\* the Writer is about to dequeue a record, the records it dequeued before
\* are all in the sink.
C21_DurablePerRow ==
    /\ wbuf = <<>>
    /\ xpc = "get" => \A id \in 1..Len(produced) :
          (produced[id] = 1 /\ \A i \in 1..Len(results) : results[i].id # id)
              => \E i \in 1..Len(NewRows) : NewRows[i].id = id

----------------------------------------------------------------------------
\* The records of the run in the order they left the Workers: those in the
\* sink, then those in the file object's buffer, then those still in the
\* ResultQueue.
PutOrder == NewRows \o wbuf \o results

\* C22 (order with one worker): the records are written in the order they
\* were put into the ResultQueue (no step changes the sequence of written,
\* buffered and queued records other than a Worker's put at its end); the
\* URLs are dequeued in the order the Reader enqueued them; and with W = 1
\* the rows the run has written are in the source order of their URLs.
C22_OrderWithOneWorker ==
    [][/\ \/ PutOrder' = PutOrder
          \/ \E w \in 1..W :
                /\ wpc[w] = "proc"
                /\ PutOrder' = Append(PutOrder, [id |-> wurl[w].id, row |-> Record(wurl[w].url)])
       /\ \A i \in 1..Len(dequeued') : dequeued'[i] = i
       /\ W = 1 =>
             LET rows == NewRows' \o wbuf'
             IN  /\ \A i, j \in 1..Len(rows) : i < j => rows[i].id < rows[j].id
                 /\ \A i \in 1..Len(rows) : rows[i].row[1] = enq'[rows[i].id]
      ]_vars

\* The one Worker has dropped the second of three URLs and the run has ended
\* with the rows of the first and the third in the sink, in that order.
C22_Witness ==
    /\ W = 1
    /\ Returned
    /\ Len(enq) = 3
    /\ Len(NewRows) = 2
    /\ NewRows[1].id = 1
    /\ NewRows[2].id = 3

----------------------------------------------------------------------------
\* C23 (ColorScanner.scan): scan does not raise, and when it has returned
\* the file holds exactly one row per URL, in the order of the URL list (the
\* URL followed by its top colours, the URL alone for a removed image), and
\* self.results is empty.
C23_ScanWritesAll ==
    /\ spc # "raised"
    /\ spc = "returned" =>
          /\ cs_file = [k \in 1..Len(cs_urls) |-> cs_row(cs_urls[k])]
          /\ cs_results = <<>>

----------------------------------------------------------------------------
\* The counting threads that are started and have not ended.
AliveThreads == {k \in 1..Len(cs_urls) : tstate[k] = "alive"}

\* C24 (one counting thread, no lost result): at most one counting thread is
\* alive at any time; no counting thread is alive while the main thread is
\* inside write_results; self.results never holds more than write_freq rows;
\* and every row a counting thread has appended is in the file or still in
\* self.results, in the order of the appends, so the clear loses none.
C24_OneCountingThread ==
    /\ Cardinality(AliveThreads) <= 1
    /\ spc \in {"write", "clear", "final_write", "final_clear"} => AliveThreads = {}
    /\ Len(cs_results) <= write_freq
    /\ appended = (IF spc \in {"clear", "final_clear"} THEN cs_file ELSE cs_file \o cs_results)

\* With write_freq = 2 the main thread is inside write_results in the loop,
\* between writing two rows and clearing them, with a third URL loaded.
C24_Witness ==
    /\ write_freq = 2
    /\ spc = "clear"
    /\ Len(cs_results) = 2
    /\ cs_file = cs_results
    /\ Len(cs_urls) = 3
====
